---- MODULE Spec2Model ----
(***************************************************************************)
(* Semantic-archive ingestion pipeline: the worker processor that drives   *)
(* one job attempt through its stages, the graph executor's transaction    *)
(* against the PostgreSQL entity / relationship tables, and the schema's   *)
(* constraints (primary keys, foreign keys, the self-loop CHECK and the    *)
(* has_cycle CHECK).                                                       *)
(*                                                                         *)
(* The store runs at PostgreSQL's default isolation level, READ COMMITTED: *)
(* a statement sees every committed row plus the rows written earlier by   *)
(* its own transaction; a statement that needs a row or an index entry     *)
(* another open transaction has written waits until that one ends.         *)
(***************************************************************************)
EXTENDS Integers, Sequences, FiniteSets, Bags, TLC

concurrency == 2

MaxCmds == 2
MaxRuns == 2
MaxCalls == 3
MaxText == 2
MaxDistance == 2
MaxScore == 2
MaxLimit == 3
MaxEdges == 3
MaxAttempts == 1
MaxExpectedRuns == 2
MaxNodes == 5
MaxDagEdges == 5

MaxJobs == 3
MaxRetryJobs == 2
MaxTicks == 3
MaxWorkerTicks == 1
MaxStarts == 12
MaxWindows == 2
MaxBacklog == 8
MaxLiveJobs == 1

NULL == "null"

Workers == 1..concurrency

Paths == {"p1", "p2"}

Ids == {"d1", "d2", "A"}

IdsOrNull == Ids \cup {NULL}

enableArchival == TRUE

maxRetries == 3

\* new Worker(...) with a concurrency as large as the backlog
WorkerOptionsWide ==
    [concurrency |-> MaxJobs + 1, limiter |-> [max |-> 10, duration |-> 60000]]

\* new Worker(..., {concurrency, limiter: {max, duration}})
WorkerOptions ==
    [concurrency |-> concurrency, limiter |-> [max |-> 10, duration |-> 60000]]

JobIds == 1..MaxJobs

\* crypto.createHash('md5').update(filePath).digest('hex'): a fixed id per path
documentId(filePath) == IF filePath = "p1" THEN "d1" ELSE "d2"

\* What the classifier and the embedder return for the text of a file; the
\* text can differ from one run to the next.
Classifications == {1, 2}

\* JSON.parse(response.message.content) of the classifier; the third answer
\* is JSON that does not follow classificationSchema (a documentType outside
\* the enum, no title)
classified(c) ==
    IF c = 1
    THEN [documentType |-> "ResearchReport", summary |-> "s1", title |-> "t1"]
    ELSE IF c = 3
    THEN [documentType |-> "Blog", summary |-> "s2", title |-> NULL]
    ELSE [documentType |-> "Other", summary |-> "s2", title |-> "t2"]

\* classified.entities: the names of the entities the classifier extracted
classifiedEntities(c) == IF c = 1 THEN <<"A", "B">> ELSE <<"C">>

\* The answers the classifier model can give inside a job attempt
Responses == Classifications \cup {3}

\* classificationSchema: required fields and the documentType enum
classificationSchema(response) ==
    /\ response.title # NULL
    /\ response.summary # NULL
    /\ response.documentType \in {"ResearchReport", "CompletionDoc", "HandoffDoc",
                                   "TechSpec", "Tutorial", "Other"}

runEmbedder(summary) == IF summary = "s1" THEN "e1" ELSE "e2"

\* The documentData argument the processor hands to executeCommands
documentData(filePath, c) ==
    [id        |-> documentId(filePath),
     type      |-> classified(c).documentType,
     content   |-> classified(c).summary,
     embedding |-> runEmbedder(classified(c).summary),
     metadata  |-> classified(c).title]

\* The commands the function caller can return. The prompt asks, per
\* extracted entity, for an INSERT_ENTITY {id, type, _class} and an
\* INSERT_RELATIONSHIP {source: documentId, target, _class: "MENTIONS"};
\* PlainCommands leave everything but the ids out, and any id can be missing.
Concepts == {"A"}

PlainCommands ==
    { [action |-> "INSERT_ENTITY", id |-> i, type |-> NULL, metadata |-> NULL] :
        i \in IdsOrNull }
    \cup
    { [action |-> "INSERT_RELATIONSHIP", source |-> s, target |-> t,
       class |-> NULL, metadata |-> NULL] : s \in IdsOrNull, t \in IdsOrNull }

ExpectedCommands ==
    { [action |-> "INSERT_ENTITY", id |-> i, type |-> "Tool", metadata |-> "em"] :
        i \in Concepts }
    \cup
    { [action |-> "INSERT_RELATIONSHIP", source |-> documentId(p), target |-> t,
       class |-> "MENTIONS", metadata |-> "rm"] : p \in Paths, t \in Concepts }

Commands == PlainCommands \cup ExpectedCommands

NoCommand == [action |-> "NONE"]

NoJob == [filePath |-> NULL, c |-> 0]

\* A CTE row of the other side that a FULL OUTER JOIN fills with NULLs
NoRow == [id |-> NULL, content |-> NULL, rank |-> 0]

\* The search command before it has run its query
NoSearch ==
    [state |-> "idle", distance |-> [i \in Ids |-> 1], rank_cd |-> [i \in Ids |-> 0],
     limit |-> 0, vector_search |-> {}, keyword_search |-> {}, fused |-> {},
     rows |-> <<>>]

\* The relationships command before it has run its query
NoRelated == [state |-> "idle", entityId |-> NULL, rows |-> <<>>]

\* No archiveAndClean call under way
NoArchive ==
    [state |-> "idle", filePath |-> NULL, entry |-> "none", settled |-> "pending",
     reason |-> "none", unlinked |-> FALSE]

\* No has_cycle call yet
NoCycle == [state |-> "idle", u |-> 0, v |-> 0, edges |-> {}, result |-> FALSE]

\* A job id the queue has not handed out yet
NoQueueJob ==
    [state |-> "none", attempts |-> 0, backoff |-> [type |-> "none", delay |-> 0],
     attemptsMade |-> 0, started |-> 0, readyAt |-> 0, delays |-> <<>>,
     failedReason |-> "none", reported |-> "none", returnvalue |-> "none"]

VARIABLES
    entity,          \* committed rows of public.entity
    relationship,    \* committed rows of public.relationship
    files,           \* paths that exist on disk
    checkValidation, \* config.pipeline.checkValidation
    runs,            \* job attempts started so far
    pc,              \* per worker: the stage its job attempt is at
    outcome,         \* per worker: "none" while running, else "completed" / "failed"
    error,           \* per worker: the kind of error its attempt threw
    job,             \* per worker: filePath and classification of the attempt
    mutated,         \* per worker: the attempt has changed the committed store
    n,               \* per worker: commands its open transaction has consumed
    cmd,             \* per worker: the relationship row being inserted or rejected
    last,            \* per worker: what the last loop iteration did
    tins,            \* per worker: entity rows its open transaction inserted
    tupd,            \* per worker: new versions of committed entity rows it updated
    trel,            \* per worker: relationship rows its open transaction inserted
    jobs,            \* the queue's jobs: state, options and attempts of each
    now,             \* the clock, in ms
    limiter,         \* the queue's rate-limit key: its counter and when it expires
    starts,          \* the times at which rate-limited attempts started
    command,         \* the `process <file>` command: what it waits for, how it ended
    search,          \* the search command: its query, its rankings and its result
    related,         \* the relationships command: its entity id and its result
    archive,         \* one archiveAndClean call: its streams and its promise
    cycle            \* one has_cycle call: its arguments, the edges it reads, its result

vars == <<entity, relationship, files, checkValidation, runs, pc, outcome, error,
          job, mutated, n, cmd, last, tins, tupd, trel,
          jobs, now, limiter, starts, command, search, related, archive, cycle>>

pipevars == <<entity, relationship, files, checkValidation, runs, pc, outcome, error,
              job, mutated, n, cmd, last, tins, tupd, trel>>

queuevars == <<jobs, now, limiter, starts, command>>

store == <<entity, relationship>>

\* The job attempt of worker w
SetAttempt(w, stage, result, kind, j, m) ==
    /\ pc' = [pc EXCEPT ![w] = stage]
    /\ outcome' = [outcome EXCEPT ![w] = result]
    /\ error' = [error EXCEPT ![w] = kind]
    /\ job' = [job EXCEPT ![w] = j]
    /\ mutated' = [mutated EXCEPT ![w] = m]

\* The open transaction of worker w
SetTx(w, count, row, did, ins, upd, rel) ==
    /\ n' = [n EXCEPT ![w] = count]
    /\ cmd' = [cmd EXCEPT ![w] = row]
    /\ last' = [last EXCEPT ![w] = did]
    /\ tins' = [tins EXCEPT ![w] = ins]
    /\ tupd' = [tupd EXCEPT ![w] = upd]
    /\ trel' = [trel EXCEPT ![w] = rel]

txvars == <<n, cmd, last, tins, tupd, trel>>

----------------------------------------------------------------------------
\* Schema helpers

RowIds(rows) == { r.id : r \in rows }

Triple(r) == <<r.source, r.target, r.class>>

Triples(rows) == { Triple(r) : r \in rows }

Edges(rows) == { <<r.source, r.target>> : r \in rows }

\* What a statement of worker w's transaction sees of public.entity
EntityView(w) ==
    { r \in entity : r.id \notin RowIds(tupd[w]) } \cup tupd[w] \cup tins[w]

\* What a statement of worker w's transaction sees of public.relationship
RelationshipView(w) == relationship \cup trel[w]

SeqElems(s) == { s[i] : i \in 1..Len(s) }

\* The rows of the recursive CTE, level by level; the loop returns TRUE at
\* the first row whose target_node_id is in its path
RECURSIVE ScanTraversed(_, _)
ScanTraversed(rows, edges) ==
    IF \E r \in rows : r.target_node_id \in SeqElems(r.path) THEN TRUE
    ELSE IF rows = {} THEN FALSE
    ELSE ScanTraversed(
            { [path |-> Append(re[1].path, re[2][1]), target_node_id |-> re[2][2]] :
                re \in { x \in rows \X edges : x[2][1] = x[1].target_node_id } },
            edges)

\* has_cycle without the recursive term of the CTE: only the edge back
has_cycle_direct(input_source_node, input_target_node, edges) ==
    \/ input_source_node = input_target_node
    \/ <<input_target_node, input_source_node>> \in edges

\* has_cycle with a test for a node reached twice: two edges out of the
\* target that lead on to one node count as a cycle
has_cycle_converging(input_source_node, input_target_node, edges) ==
    \/ ScanTraversed({ [path |-> <<input_source_node>>,
                        target_node_id |-> input_target_node] }, edges)
    \/ \E a, b, c \in { e[2] : e \in edges } :
          /\ a # b
          /\ {<<input_target_node, a>>, <<input_target_node, b>>, <<a, c>>, <<b, c>>}
                \subseteq edges

\* has_cycle(input_source_node, input_target_node) over the visible edges
has_cycle(input_source_node, input_target_node, edges) ==
    ScanTraversed({ [path |-> <<input_source_node>>,
                     target_node_id |-> input_target_node] }, edges)

\* The table without its check_no_cycles constraint
CheckConstraintsNoCycleCheck(source, target, edges) == source # target

\* The two CHECK constraints of public.relationship hold for a new row
CheckConstraints(source, target, edges) ==
    /\ source # target
    /\ ~ has_cycle(source, target, edges)

\* REFERENCES public.entity (id) on source_entity_id only
ForeignKeysSourceOnly(source, target, entities) == source \in RowIds(entities)

\* REFERENCES public.entity (id) on both endpoints
ForeignKeys(source, target, entities) ==
    /\ source \in RowIds(entities)
    /\ target \in RowIds(entities)

----------------------------------------------------------------------------
InitProcess ==
    /\ files = Paths
    /\ checkValidation \in BOOLEAN
    /\ runs = 0
    /\ pc = [w \in Workers |-> "idle"]
    /\ outcome = [w \in Workers |-> "none"]
    /\ error = [w \in Workers |-> "none"]
    /\ job = [w \in Workers |-> NoJob]
    /\ mutated = [w \in Workers |-> FALSE]
    /\ n = [w \in Workers |-> 0]
    /\ cmd = [w \in Workers |-> NoCommand]
    /\ last = [w \in Workers |-> "none"]
    /\ tins = [w \in Workers |-> {}]
    /\ tupd = [w \in Workers |-> {}]
    /\ trel = [w \in Workers |-> {}]
    /\ jobs = [id \in JobIds |-> NoQueueJob]
    /\ now = 0
    /\ limiter = [count |-> 0, expires |-> 0]
    /\ starts = <<>>
    /\ command = [state |-> "idle", job |-> 0, code |-> 0, output |-> "none"]
    /\ search = NoSearch
    /\ related = NoRelated
    /\ archive = NoArchive
    /\ cycle = NoCycle

Init ==
    /\ entity = {}
    /\ relationship = {}
    /\ InitProcess

At(w, stage) == pc[w] = stage /\ outcome[w] = "none"

Goto(w, stage) == SetAttempt(w, stage, "none", "none", job[w], mutated[w])

\* The processor's catch block rethrows: the attempt fails at its current stage
Throw(w, kind) == SetAttempt(w, pc[w], "failed", kind, NoJob, mutated[w])

\* The queue hands a job for filePath to a free worker
StartAttempt(w, filePath) ==
    /\ pc[w] = "idle" \/ outcome[w] # "none"
    /\ runs' = runs + 1
    /\ SetAttempt(w, "extract", "none", "none", [filePath |-> filePath, c |-> 0], FALSE)
    /\ SetTx(w, 0, NoCommand, "none", {}, {}, {})
    /\ UNCHANGED <<entity, relationship, files, checkValidation>>

\* Texts an extraction can return: strings of at most MaxText characters
Whitespace == {" ", "\n"}

Chars == Whitespace \cup {"x"}

Texts == UNION {[1..k -> Chars] : k \in 0..MaxText}

RECURSIVE trimStart(_)
trimStart(text) ==
    IF text # <<>> /\ Head(text) \in Whitespace THEN trimStart(Tail(text)) ELSE text

RECURSIVE trimEnd(_)
trimEnd(text) ==
    IF text # <<>> /\ text[Len(text)] \in Whitespace
    THEN trimEnd(SubSeq(text, 1, Len(text) - 1))
    ELSE text

\* String.prototype.trim
trimNothing(text) == text

trim(text) == trimEnd(trimStart(text))

\* !documentText || documentText.trim().length === 0
NoText(documentText) == documentText = <<>> \/ Len(trim(documentText)) = 0

\* Step 1, extractDocumentText resolves with documentText: the empty-text test
ExtractTextReturns(w, documentText) ==
    /\ At(w, "extract")
    /\ job[w].filePath \in files
    /\ IF NoText(documentText)
       THEN Throw(w, "No text extracted from document")
       ELSE Goto(w, "classify")
    /\ UNCHANGED <<entity, relationship, files, checkValidation, runs, txvars>>

\* Step 1, extractDocumentText rejects (unreadable file, unsupported
\* extension, converter exit code)
ExtractTextRejects(w) ==
    /\ At(w, "extract")
    /\ Throw(w, "extraction")
    /\ UNCHANGED <<entity, relationship, files, checkValidation, runs, txvars>>

\* Step 1: extractDocumentText, extractMetadata and the empty-text test
ExtractText(w) ==
    \/ \E documentText \in Texts : ExtractTextReturns(w, documentText)
    \/ ExtractTextRejects(w)

\* Step 2: runClassifier returns the parsed JSON of one of the answers, or
\* throws (the model call fails, JSON.parse throws)
RunClassifier(w, answers) ==
    /\ At(w, "classify")
    /\ \/ \E c \in answers :
            SetAttempt(w, IF checkValidation THEN "validate" ELSE "embed", "none",
                       "none", [job[w] EXCEPT !.c = c], mutated[w])
       \/ Throw(w, "classification")
    /\ UNCHANGED <<entity, relationship, files, checkValidation, runs, txvars>>

\* Step 2 with a classifier model that keeps to the schema it is handed in
\* `format`
Classify(w) == RunClassifier(w, Classifications)

\* Step 3, runChecker resolves with validation = {isValid, reasoning}
RunCheckerReturnsUnchecked(w, isValid) ==
    /\ At(w, "validate")
    /\ Goto(w, "embed")
    /\ UNCHANGED <<entity, relationship, files, checkValidation, runs, txvars>>

RunCheckerReturns(w, isValid) ==
    /\ At(w, "validate")
    /\ IF ~ isValid
       THEN Throw(w, "Classification validation failed")
       ELSE Goto(w, "embed")
    /\ UNCHANGED <<entity, relationship, files, checkValidation, runs, txvars>>

\* Step 3, runChecker rejects (the model call fails or its answer is no JSON)
RunCheckerRejects(w) ==
    /\ At(w, "validate")
    /\ Throw(w, "validation")
    /\ UNCHANGED <<entity, relationship, files, checkValidation, runs, txvars>>

\* Step 3: runChecker, only when config.pipeline.checkValidation
Validate(w) ==
    \/ \E isValid \in BOOLEAN : RunCheckerReturns(w, isValid)
    \/ RunCheckerRejects(w)

\* Step 4: runEmbedder
Embed(w) ==
    /\ At(w, "embed")
    /\ \/ Goto(w, "generate")
       \/ Throw(w, "embedding")
    /\ UNCHANGED <<entity, relationship, files, checkValidation, runs, txvars>>

\* Step 5: runFunctionCaller; the batch it returns is consumed one command
\* at a time by ExecuteCommand
GenerateCommands(w) ==
    /\ At(w, "generate")
    /\ \/ Goto(w, "execute")
       \/ Throw(w, "commands")
    /\ UNCHANGED <<entity, relationship, files, checkValidation, runs, txvars>>

----------------------------------------------------------------------------
\* executeCommands

\* Worker w is inside executeCommands
InExecute(w) == At(w, "execute") \/ At(w, "loop") \/ At(w, "insert")

\* executeCommands(commands, documentData) is called for a classified file
Call(w, filePath, c) ==
    /\ ~ InExecute(w)
    /\ runs' = runs + 1
    /\ SetAttempt(w, "execute", "none", "none", [filePath |-> filePath, c |-> c], FALSE)
    /\ SetTx(w, 0, NoCommand, "none", {}, {}, {})
    /\ UNCHANGED <<entity, relationship, files, checkValidation>>

\* An insert that does not wait for the open transaction that holds the id
EntityInsertNeverWaits(w, id) == FALSE

\* Another open transaction holds an uncommitted insert of this id
EntityInsertWaits(w, id) ==
    \E o \in Workers \ {w} : id \in RowIds(tins[o])

\* Another open transaction holds an uncommitted update of this row
RowLockWaits(w, id) ==
    \E o \in Workers \ {w} : id \in RowIds(tupd[o])

\* Another open transaction holds an uncommitted insert of this triple
RelationshipInsertWaits(w, triple) ==
    \E o \in Workers \ {w} : triple \in Triples(trel[o])

\* ON CONFLICT (id) DO NOTHING in place of DO UPDATE
UpsertRowDoNothing(d, row) == row

\* ON CONFLICT (id) DO UPDATE SET content, embedding, metadata
UpsertRow(d, row) ==
    [row EXCEPT !.content = d.content, !.embedding = d.embedding,
                !.metadata = d.metadata]

DocumentRow(d) ==
    [id |-> d.id, type |-> d.type, class |-> "Document", content |-> d.content,
     embedding |-> d.embedding, metadata |-> d.metadata]

\* catch (error) { COMMIT; throw error }: the statements already run are kept
RollbackCommits(w, kind, row) ==
    /\ entity' = EntityView(w)
    /\ relationship' = RelationshipView(w)
    /\ SetTx(w, 0, row, "none", {}, {}, {})
    /\ SetAttempt(w, pc[w], "failed", kind, NoJob, mutated[w] \/ store' # store)

\* catch (error) { ROLLBACK; throw error }
Rollback(w, kind, row) ==
    /\ SetTx(w, 0, row, "none", {}, {}, {})
    /\ Throw(w, kind)
    /\ UNCHANGED <<entity, relationship>>

\* connect, BEGIN and the document upsert, the first statement of the
\* transaction
UpsertDocument(w) ==
    /\ At(w, "execute")
    /\ LET d == documentData(job[w].filePath, job[w].c) IN
        /\ ~ EntityInsertWaits(w, d.id)
        /\ ~ RowLockWaits(w, d.id)
        /\ IF d.id \in RowIds(EntityView(w))
           THEN SetTx(w, 0, NoCommand, "none", tins[w],
                      { UpsertRow(d, r) : r \in { x \in EntityView(w) : x.id = d.id } }
                          \cup { r \in tupd[w] : r.id # d.id },
                      trel[w])
           ELSE SetTx(w, 0, NoCommand, "none", tins[w] \cup {DocumentRow(d)},
                      tupd[w], trel[w])
    /\ Goto(w, "loop")
    /\ UNCHANGED <<entity, relationship, files, checkValidation, runs>>

\* The row of an INSERT_ENTITY command, written with the document's class
ConceptRowAsDocument(p) ==
    [id |-> p.id,
     type |-> IF p.type = NULL THEN "Unknown" ELSE p.type,
     class |-> "Document", content |-> NULL, embedding |-> NULL,
     metadata |-> IF p.metadata = NULL THEN "{}" ELSE p.metadata]

ConceptRow(p) ==
    [id |-> p.id,
     type |-> IF p.type = NULL THEN "Unknown" ELSE p.type,
     class |-> "Concept", content |-> NULL, embedding |-> NULL,
     metadata |-> IF p.metadata = NULL THEN "{}" ELSE p.metadata]

\* INSERT INTO entity ... ON CONFLICT (id) DO UPDATE SET _type, metadata
InsertEntityOverwrite(w, p) ==
    /\ ~ EntityInsertWaits(w, p.id)
    /\ ~ RowLockWaits(w, p.id)
    /\ LET over(r) == [r EXCEPT !.type = ConceptRow(p).type,
                                !.metadata = ConceptRow(p).metadata] IN
        IF p.id \in RowIds(tins[w])
        THEN SetTx(w, n[w] + 1, NoCommand, "entity_exists",
                   { IF r.id = p.id THEN over(r) ELSE r : r \in tins[w] },
                   tupd[w], trel[w])
        ELSE IF p.id \in RowIds(EntityView(w))
        THEN SetTx(w, n[w] + 1, NoCommand, "entity_exists", tins[w],
                   { over(r) : r \in { x \in EntityView(w) : x.id = p.id } }
                       \cup { r \in tupd[w] : r.id # p.id },
                   trel[w])
        ELSE SetTx(w, n[w] + 1, NoCommand, "entity_inserted",
                   tins[w] \cup {ConceptRow(p)}, tupd[w], trel[w])
    /\ Goto(w, "loop")
    /\ UNCHANGED <<entity, relationship>>

\* INSERT INTO entity ... ON CONFLICT (id) DO NOTHING
InsertEntity(w, p) ==
    /\ ~ EntityInsertWaits(w, p.id)
    /\ IF p.id \in RowIds(EntityView(w))
       THEN SetTx(w, n[w] + 1, NoCommand, "entity_exists", tins[w], tupd[w], trel[w])
       ELSE SetTx(w, n[w] + 1, NoCommand, "entity_inserted", tins[w] \cup {ConceptRow(p)},
                  tupd[w], trel[w])
    /\ Goto(w, "loop")
    /\ UNCHANGED <<entity, relationship>>

relationshipClass(p) == IF p.class = NULL THEN "MENTIONS" ELSE p.class

RelationshipRow(p) ==
    [source |-> p.source, target |-> p.target, class |-> relationshipClass(p),
     metadata |-> IF p.metadata = NULL THEN "{}" ELSE p.metadata]

\* The command loop without its required-field tests: the insert of a NULL
\* id, source or target breaks NOT NULL
SkipRaises(w) == Rollback(w, "not_null_violation", NoCommand)

\* console.warn('Skipping invalid ...'); continue
Skip(w) ==
    /\ SetTx(w, n[w] + 1, NoCommand, "skipped", tins[w], tupd[w], trel[w])
    /\ Goto(w, "loop")
    /\ UNCHANGED <<entity, relationship>>

\* The CHECK constraints evaluated against the committed rows only
CheckRelationshipCommitted(w, p) ==
    IF CheckConstraints(p.source, p.target, Edges(relationship))
    THEN /\ SetTx(w, n[w] + 1, RelationshipRow(p), "none", tins[w], tupd[w], trel[w])
         /\ Goto(w, "insert")
         /\ UNCHANGED <<entity, relationship>>
    ELSE Rollback(w, "check_violation", RelationshipRow(p))

\* The CHECK constraints of the new relationship row, evaluated before the
\* primary-key conflict test
CheckRelationship(w, p) ==
    IF CheckConstraints(p.source, p.target, Edges(RelationshipView(w)))
    THEN /\ SetTx(w, n[w] + 1, RelationshipRow(p), "none", tins[w], tupd[w], trel[w])
         /\ Goto(w, "insert")
         /\ UNCHANGED <<entity, relationship>>
    ELSE Rollback(w, "check_violation", RelationshipRow(p))

\* One iteration of the command loop
LoopIteration(w, c) ==
    /\ At(w, "loop")
    /\ IF c.action = "INSERT_ENTITY"
       THEN IF c.id = NULL THEN Skip(w) ELSE InsertEntity(w, c)
       ELSE IF c.source = NULL \/ c.target = NULL THEN Skip(w)
            ELSE CheckRelationship(w, c)
    /\ UNCHANGED <<files, checkValidation, runs>>

\* One iteration of the loop over a batch of at most MaxCmds commands
ExecuteCommand(w, c) ==
    /\ n[w] < MaxCmds
    /\ LoopIteration(w, c)

\* INSERT INTO relationship without ON CONFLICT DO NOTHING: an existing
\* triple breaks the primary key
InsertRelationshipRaises(w) ==
    /\ At(w, "insert")
    /\ ~ RelationshipInsertWaits(w, Triple(cmd[w]))
    /\ IF Triple(cmd[w]) \in Triples(RelationshipView(w))
       THEN Rollback(w, "unique_violation", cmd[w])
       ELSE IF ForeignKeys(cmd[w].source, cmd[w].target, EntityView(w))
            THEN /\ SetTx(w, n[w], NoCommand, "relationship_inserted", tins[w], tupd[w],
                          trel[w] \cup {cmd[w]})
                 /\ Goto(w, "loop")
                 /\ UNCHANGED <<entity, relationship>>
            ELSE Rollback(w, "foreign_key_violation", cmd[w])
    /\ UNCHANGED <<files, checkValidation, runs>>

\* INSERT INTO relationship ... ON CONFLICT DO NOTHING, after its CHECKs
\* passed: the primary-key conflict test, the insert, the foreign keys
InsertRelationship(w) ==
    /\ At(w, "insert")
    /\ ~ RelationshipInsertWaits(w, Triple(cmd[w]))
    /\ IF Triple(cmd[w]) \in Triples(RelationshipView(w))
       THEN /\ SetTx(w, n[w], NoCommand, "relationship_exists", tins[w], tupd[w], trel[w])
            /\ Goto(w, "loop")
            /\ UNCHANGED <<entity, relationship>>
       ELSE IF ForeignKeys(cmd[w].source, cmd[w].target, EntityView(w))
            THEN /\ SetTx(w, n[w], NoCommand, "relationship_inserted", tins[w], tupd[w],
                          trel[w] \cup {cmd[w]})
                 /\ Goto(w, "loop")
                 /\ UNCHANGED <<entity, relationship>>
            ELSE Rollback(w, "foreign_key_violation", cmd[w])
    /\ UNCHANGED <<files, checkValidation, runs>>

\* A commit that replaces the relationships of the job's document by those
\* of the batch
CommitReplacingEdges(w) ==
    /\ At(w, "loop")
    /\ entity' = EntityView(w)
    /\ relationship' =
          { r \in relationship : r.source # documentId(job[w].filePath) } \cup trel[w]
    /\ SetTx(w, 0, NoCommand, "none", {}, {}, {})
    /\ SetAttempt(w, IF enableArchival THEN "archive" ELSE "done", "none", "none",
                  job[w], store' # store)
    /\ UNCHANGED <<files, checkValidation, runs>>

\* COMMIT after the last command of the batch; executeCommands returns
Commit(w) ==
    /\ At(w, "loop")
    /\ entity' = EntityView(w)
    /\ relationship' = RelationshipView(w)
    /\ SetTx(w, 0, NoCommand, "none", {}, {}, {})
    /\ SetAttempt(w, IF enableArchival THEN "archive" ELSE "done", "none", "none",
                  job[w], store' # store)
    /\ UNCHANGED <<files, checkValidation, runs>>

\* The statements run without BEGIN: each is committed on its own, and a
\* later error leaves them in the store
TransactionErrorAutocommit(w) ==
    /\ InExecute(w)
    /\ RollbackCommits(w, "connection", NoCommand)
    /\ UNCHANGED <<files, checkValidation, runs>>

\* A statement fails for a reason outside the batch: the connection drops,
\* or the store aborts the transaction to break a deadlock
TransactionError(w) ==
    /\ InExecute(w)
    /\ Rollback(w, "connection", NoCommand)
    /\ UNCHANGED <<files, checkValidation, runs>>

----------------------------------------------------------------------------
\* Step 7: archiveAndClean and the processor's return. The close handler of
\* the output unlinks the file and resolves. The promise is rejected when the
\* file is missing, when the unlink fails, by the archive's error handler and
\* by its warning handler (any code but ENOENT). A reject from the error or
\* warning handler does not stop the archive: when its output closes after
\* the reject, the close handler unlinks the file all the same.
ArchiveAndClean(w) ==
    /\ At(w, "archive")
    /\ LET filePath == job[w].filePath IN
       \/ /\ filePath \in files
          /\ files' = files \ {filePath}
          /\ SetAttempt(w, "done", "completed", "none", NoJob, mutated[w])
       \/ /\ Throw(w, "archival")
          /\ UNCHANGED files
       \/ /\ filePath \in files
          /\ Throw(w, "archival")
          /\ files' = files \ {filePath}
    /\ UNCHANGED <<entity, relationship, checkValidation, runs, txvars>>

\* A file appears (again) at a watched path
CreateFile(filePath) ==
    /\ filePath \notin files
    /\ files' = files \cup {filePath}
    /\ UNCHANGED <<entity, relationship, checkValidation, runs, pc, outcome, error,
                   job, mutated, txvars>>

----------------------------------------------------------------------------
\* executeCommands calls of two workers, overlapping in time
Next ==
    /\ UNCHANGED <<queuevars, search, related, archive, cycle>>
    /\ \E w \in Workers :
        \/ \E filePath \in Paths, c \in Classifications :
              runs < MaxCalls /\ Call(w, filePath, c)
        \/ UpsertDocument(w)
        \/ \E c \in PlainCommands : ExecuteCommand(w, c)
        \/ InsertRelationship(w)
        \/ Commit(w)
        \/ TransactionError(w)

InitStore == Init /\ checkValidation = FALSE

Spec == InitStore /\ [][Next]_vars

\* executeCommands calls run one at a time
NextSerial ==
    /\ UNCHANGED <<queuevars, search, related, archive, cycle>>
    /\ \/ \E filePath \in Paths, c \in Classifications :
             runs < MaxRuns /\ Call(1, filePath, c)
       \/ UpsertDocument(1)
       \/ \E c \in Commands : ExecuteCommand(1, c)
       \/ InsertRelationship(1)
       \/ Commit(1)
       \/ TransactionError(1)

SpecSerial == InitStore /\ [][NextSerial]_vars

\* The batch of the shape the function caller's prompt asks for: per entity
\* an INSERT_ENTITY and an INSERT_RELATIONSHIP from the document to it
ExpectedBatch(filePath, c) ==
    [k \in 1..(2 * Len(classifiedEntities(c))) |->
        IF k % 2 = 1
        THEN [action |-> "INSERT_ENTITY", id |-> classifiedEntities(c)[(k + 1) \div 2],
              type |-> "Tool", metadata |-> "em"]
        ELSE [action |-> "INSERT_RELATIONSHIP", source |-> documentId(filePath),
              target |-> classifiedEntities(c)[k \div 2], class |-> "MENTIONS", metadata |-> "rm"]]

\* executeCommands called one call after the other, each with the batch of
\* the expected shape for its classification
NextExpected ==
    /\ UNCHANGED <<queuevars, search, related, archive, cycle>>
    /\ LET batch == ExpectedBatch(job[1].filePath, job[1].c) IN
       \/ \E filePath \in Paths, c \in Classifications :
             runs < MaxExpectedRuns /\ Call(1, filePath, c)
       \/ UpsertDocument(1)
       \/ n[1] < Len(batch) /\ LoopIteration(1, batch[n[1] + 1])
       \/ InsertRelationship(1)
       \/ n[1] = Len(batch) /\ Commit(1)
       \/ TransactionError(1)

SpecExpected == InitStore /\ [][NextExpected]_vars

\* Two jobs at a time, one per slot of the worker, each calling
\* executeCommands once with the batch of the expected shape for its file
\* and classification
NextConcurrent ==
    /\ UNCHANGED <<queuevars, search, related, archive, cycle>>
    /\ \E w \in Workers :
        LET batch == ExpectedBatch(job[w].filePath, job[w].c) IN
        \/ \E filePath \in Paths, c \in Classifications :
              pc[w] = "idle" /\ Call(w, filePath, c)
        \/ UpsertDocument(w)
        \/ n[w] < Len(batch) /\ LoopIteration(w, batch[n[w] + 1])
        \/ InsertRelationship(w)
        \/ n[w] = Len(batch) /\ Commit(w)
        \/ TransactionError(w)

SpecConcurrent == InitStore /\ [][NextConcurrent]_vars

\* The acyclic edge sets over MaxNodes nodes with at most MaxDagEdges edges,
\* each in a topological numbering of its nodes
DagNodes == 1..MaxNodes

Dags ==
    { edges \in SUBSET { e \in DagNodes \X DagNodes : e[1] < e[2] } :
        Cardinality(edges) <= MaxDagEdges }

\* SELECT has_cycle(u, v) over a relationship table with these edges
HasCycle(u, v, edges) ==
    /\ cycle.state = "idle"
    /\ cycle' = [state |-> "done", u |-> u, v |-> v, edges |-> edges,
                 result |-> has_cycle(u, v, edges)]
    /\ UNCHANGED <<pipevars, queuevars, search, related, archive>>

NextHasCycle ==
    /\ cycle.state = "idle"
    /\ \E edges \in Dags, u \in DagNodes, v \in DagNodes : HasCycle(u, v, edges)

SpecHasCycle == InitStore /\ [][NextHasCycle]_vars

\* The processor's stages around executeCommands, one attempt at a time
NextPipeline ==
    /\ UNCHANGED <<queuevars, search, related, archive, cycle>>
    /\ \/ \E filePath \in Paths : runs < MaxRuns /\ StartAttempt(1, filePath)
       \/ ExtractText(1)
       \/ Classify(1)
       \/ Validate(1)
       \/ Embed(1)
       \/ GenerateCommands(1)
       \/ UpsertDocument(1)
       \/ \E c \in PlainCommands : ExecuteCommand(1, c)
       \/ InsertRelationship(1)
       \/ Commit(1)
       \/ TransactionError(1)
       \/ ArchiveAndClean(1)
       \/ \E filePath \in Paths : CreateFile(filePath)

SpecPipeline == Init /\ [][NextPipeline]_vars

\* The pipeline with a classifier model that can also answer outside the
\* schema, for MaxAttempts job attempts
NextClassify ==
    /\ UNCHANGED <<queuevars, search, related, archive, cycle>>
    /\ \/ \E filePath \in Paths : runs < MaxAttempts /\ StartAttempt(1, filePath)
       \/ ExtractText(1)
       \/ RunClassifier(1, Responses)
       \/ Validate(1)
       \/ Embed(1)
       \/ GenerateCommands(1)
       \/ UpsertDocument(1)
       \/ \E c \in PlainCommands : ExecuteCommand(1, c)
       \/ InsertRelationship(1)
       \/ Commit(1)
       \/ TransactionError(1)
       \/ ArchiveAndClean(1)

SpecClassify == Init /\ [][NextClassify]_vars

----------------------------------------------------------------------------
\* The document-ingestion queue: how jobs are added, and what the queue does
\* with the options the pipeline gives it

\* ingestionQueue.add(..., {attempts: maxRetries, backoff: exponential 2000})
\* with a fixed backoff instead
WatcherJobOptionsFixed ==
    [attempts |-> maxRetries, backoff |-> [type |-> "fixed", delay |-> 2000]]

\* watcher.on('add'): ingestionQueue.add('ingest-document', {filePath}, {...})
WatcherJobOptions ==
    [attempts |-> maxRetries, backoff |-> [type |-> "exponential", delay |-> 2000]]

\* batch: ingestionQueue.add('ingest-document', {filePath}, {...})
BatchJobOptions ==
    [attempts |-> maxRetries, backoff |-> [type |-> "exponential", delay |-> 2000]]

\* process <file> with the options of the watcher
ProcessJobOptionsRetried ==
    [attempts |-> maxRetries, backoff |-> [type |-> "exponential", delay |-> 2000]]

\* process <file>: ingestionQueue.add('ingest-document', {filePath}, {attempts: 1})
ProcessJobOptions ==
    [attempts |-> 1, backoff |-> [type |-> "none", delay |-> 0]]

TickMs == WatcherJobOptions.backoff.delay

Errors == {"No text extracted from document", "File not found"}

RECURSIVE Pow2(_)
Pow2(k) == IF k = 0 THEN 1 ELSE 2 * Pow2(k - 1)

\* The delay before the retry that follows failed attempt number attemptsMade
Backoff(backoff, attemptsMade) ==
    IF backoff.type = "exponential" THEN Pow2(attemptsMade - 1) * backoff.delay
    ELSE IF backoff.type = "fixed" THEN backoff.delay
    ELSE 0

Active == { id \in JobIds : jobs[id].state = "active" }

Unused == { id \in JobIds : jobs[id].state = "none" }

Added == JobIds \ Unused

\* Job ids are handed out in increasing order
NextId == CHOOSE id \in Unused : \A o \in Unused : id <= o

NewJob(opts) ==
    [NoQueueJob EXCEPT !.state = "waiting", !.attempts = opts.attempts,
                       !.backoff = opts.backoff]

AddJob(opts) ==
    /\ Unused # {}
    /\ jobs' = [jobs EXCEPT ![NextId] = NewJob(opts)]

\* The watcher sees a new file of a supported extension
AddWatcherJob ==
    /\ AddJob(WatcherJobOptions)
    /\ UNCHANGED <<search, related, archive, cycle, pipevars, now, limiter, starts, command>>

\* The batch command queues a file it found
AddBatchJob ==
    /\ AddJob(BatchJobOptions)
    /\ UNCHANGED <<search, related, archive, cycle, pipevars, now, limiter, starts, command>>

\* process <file>: exit(1) when the file does not exist, else queue the job
\* and wait for it to finish
ProcessCommand(filePath) ==
    /\ command.state = "idle"
    /\ IF filePath \notin files
       THEN /\ command' = [state |-> "exited", job |-> 0, code |-> 1,
                           output |-> "File not found"]
            /\ UNCHANGED jobs
       ELSE /\ AddJob(ProcessJobOptions)
            /\ command' = [state |-> "waiting", job |-> NextId, code |-> 0,
                           output |-> "none"]
    /\ UNCHANGED <<search, related, archive, cycle, pipevars, now, limiter, starts>>

\* The rate-limit key is absent or its counter is below max
LimiterAllows(l, t) ==
    t >= l.expires \/ l.count < WorkerOptions.limiter.max

\* The key after one more start: the counter is incremented, and the key is
\* given its time to live when this start created it
LimiterAfterStart(l, t) ==
    IF t >= l.expires
    THEN [count |-> 1, expires |-> t + WorkerOptions.limiter.duration]
    ELSE [l EXCEPT !.count = @ + 1]

\* Delayed jobs are never promoted
ReadyWhenWaiting(j) == j.state = "waiting"

Ready(j) == j.state = "waiting" \/ (j.state = "delayed" /\ j.readyAt <= now)

\* The worker takes a job that is ready: it has a free slot and the limiter
\* lets the job start
MoveToActive(id) ==
    /\ Ready(jobs[id])
    /\ Cardinality(Active) < WorkerOptions.concurrency
    /\ LimiterAllows(limiter, now)
    /\ limiter' = LimiterAfterStart(limiter, now)
    /\ jobs' = [jobs EXCEPT ![id].state = "active", ![id].started = @ + 1]
    /\ UNCHANGED <<search, related, archive, cycle, pipevars, now, starts, command>>

\* worker.on('completed', ...)
OnCompleted(j) == j

\* The processor returns {success: true, ...}: the job is completed
ProcessorReturns(id) ==
    /\ jobs[id].state = "active"
    /\ jobs' = [jobs EXCEPT ![id] =
                  OnCompleted([@ EXCEPT !.state = "completed",
                                        !.returnvalue = "success"])]
    /\ UNCHANGED <<search, related, archive, cycle, pipevars, now, limiter, starts, command>>

\* The queue's handling of a failed attempt: retry after the backoff while
\* attempts are left, else the job is failed for good
MoveToFailed(j, err, t) ==
    LET made == j.attemptsMade + 1
        delay == Backoff(j.backoff, made)
    IN IF made < j.attempts
       THEN [j EXCEPT !.attemptsMade = made,
                      !.failedReason = err,
                      !.state = IF delay > 0 THEN "delayed" ELSE "waiting",
                      !.readyAt = t + delay,
                      !.delays = Append(@, delay)]
       ELSE [j EXCEPT !.attemptsMade = made, !.failedReason = err,
                      !.state = "failed"]

\* worker.on('failed', (job, err) => console.error(..., err.message))
OnFailed(j, err) == [j EXCEPT !.reported = err]

\* catch (error) { ... } without the throw: the attempt counts as completed
ProcessorSwallows(id) ==
    /\ jobs[id].state = "active"
    /\ jobs' = [jobs EXCEPT ![id] =
                  OnCompleted([@ EXCEPT !.state = "completed"])]
    /\ UNCHANGED <<search, related, archive, cycle, pipevars, now, limiter, starts, command>>

\* catch (error) { ...; throw error }: the attempt fails with the error of
\* the stage that threw
ProcessorThrows(id) ==
    /\ jobs[id].state = "active"
    /\ \E err \in Errors :
          jobs' = [jobs EXCEPT ![id] = OnFailed(MoveToFailed(@, err, now), err)]
    /\ UNCHANGED <<search, related, archive, cycle, pipevars, now, limiter, starts, command>>

\* job.waitUntilFinished(queueEvents) settles: the result is printed and the
\* command exits 0, or the rejection ends the command with the job's error
WaitUntilFinished ==
    /\ command.state = "waiting"
    /\ \/ /\ jobs[command.job].state = "completed"
          /\ command' = [command EXCEPT !.state = "exited", !.code = 0,
                                        !.output = jobs[command.job].returnvalue]
       \/ /\ jobs[command.job].state = "failed"
          /\ command' = [command EXCEPT !.state = "exited", !.code = 1,
                                        !.output = jobs[command.job].failedReason]
    /\ UNCHANGED <<search, related, archive, cycle, pipevars, jobs, now, limiter, starts>>

\* Time passes
Wait(d) ==
    /\ now' = now + d
    /\ UNCHANGED <<search, related, archive, cycle, pipevars, jobs, limiter, starts, command>>

\* Jobs of the watcher, the batch command and the process command, with
\* their retries
NextQueue ==
    \/ Cardinality(Added) < MaxRetryJobs /\ AddWatcherJob
    \/ Cardinality(Added) < MaxRetryJobs /\ AddBatchJob
    \/ \E filePath \in Paths \cup {"p0"} :
          Cardinality(Added) < MaxRetryJobs /\ ProcessCommand(filePath)
    \/ \E id \in JobIds : MoveToActive(id)
    \/ \E id \in JobIds : ProcessorReturns(id)
    \/ \E id \in JobIds : ProcessorThrows(id)
    \/ WaitUntilFinished
    \/ now + TickMs <= MaxTicks * TickMs /\ Wait(TickMs)

InitQueue == Init /\ checkValidation = FALSE

SpecQueue == InitQueue /\ [][NextQueue]_vars

\* More jobs than the worker has slots
NextWorkers ==
    \/ AddWatcherJob
    \/ \E id \in JobIds : MoveToActive(id)
    \/ \E id \in JobIds : ProcessorReturns(id)
    \/ \E id \in JobIds : ProcessorThrows(id)
    \/ now + TickMs <= MaxWorkerTicks * TickMs /\ Wait(TickMs)

SpecWorkers == InitQueue /\ [][NextWorkers]_vars

\* The worker takes the next job of a long backlog of short jobs: only the
\* limiter can hold it back
RateLimitedStart ==
    /\ LimiterAllows(limiter, now)
    /\ limiter' = LimiterAfterStart(limiter, now)
    /\ starts' = Append(starts, now)
    /\ UNCHANGED <<search, related, archive, cycle, pipevars, jobs, now, command>>

\* A backlog of short jobs against the limiter, the clock moving in halves
\* of the limiter's duration
NextLimiter ==
    \/ Len(starts) < MaxStarts /\ RateLimitedStart
    \/ /\ now < MaxWindows * WorkerOptions.limiter.duration
       /\ Wait(WorkerOptions.limiter.duration \div 2)

SpecLimiter == InitQueue /\ [][NextLimiter]_vars

\* The queue over unbounded time: the clock moves to the next moment at which
\* the queue has something to do, the end of a backoff or of the limiter's
\* window
Delayed == { id \in JobIds : jobs[id].state = "delayed" /\ jobs[id].readyAt > now }

Blocked == (\E id \in JobIds : Ready(jobs[id])) /\ ~ LimiterAllows(limiter, now)

NextEvents ==
    { jobs[id].readyAt : id \in Delayed } \cup (IF Blocked THEN {limiter.expires} ELSE {})

Earliest(times) == CHOOSE t \in times : \A o \in times : t <= o

WaitForNextEvent ==
    /\ NextEvents # {}
    /\ Wait(Earliest(NextEvents) - now)

\* Jobs with retries behind the short jobs of an earlier backlog, which have
\* used part of the limiter's window
NextLive ==
    \/ Added = {} /\ Len(starts) < MaxBacklog /\ RateLimitedStart
    \/ Cardinality(Added) < MaxLiveJobs /\ AddWatcherJob
    \/ \E id \in JobIds : MoveToActive(id)
    \/ \E id \in JobIds : ProcessorReturns(id)
    \/ \E id \in JobIds : ProcessorThrows(id)
    \/ WaitForNextEvent

\* Time passes, the worker takes a job whenever it may, and every attempt
\* returns or throws
Fairness ==
    /\ WF_vars(WaitForNextEvent)
    /\ WF_vars(\E id \in JobIds : MoveToActive(id))
    /\ \A id \in JobIds : WF_vars(ProcessorReturns(id) \/ ProcessorThrows(id))

SpecLive == InitQueue /\ [][NextLive]_vars /\ Fairness

-----------------------------------------------------------------------------
\* Hybrid search: executeSearch

\* Stores a search can find: per id no row, a Document row with or without
\* an embedding, a Concept row, or a Concept row that a later document upsert
\* of the same id has given content and an embedding
SearchDocument(i, e) ==
    [id |-> i, type |-> "Other", content |-> "s1", embedding |-> e, metadata |-> "t1"]

SearchRows ==
    { DocumentRow(SearchDocument(i, e)) : i \in Ids, e \in {"e1", NULL} }
    \cup { ConceptRow([id |-> i, type |-> NULL, metadata |-> NULL]) : i \in Ids }
    \cup { UpsertRow(SearchDocument(i, "e1"),
                     ConceptRow([id |-> i, type |-> NULL, metadata |-> NULL])) : i \in Ids }

SearchStores ==
    { rows \in SUBSET SearchRows : \A a, b \in rows : a.id = b.id => a = b }

\* What the database computes for the query at hand: `embedding <=> $1` of
\* the rows that have an embedding, and ts_rank_cd of the rows whose
\* search_vector matches the query (0: the row does not match)
Distances ==
    { d \in [Ids -> 1..MaxDistance] :
        \A i \in Ids : (\A r \in entity : r.id = i => r.embedding = NULL) => d[i] = 1 }

RankCds ==
    { t \in [Ids -> 0..MaxScore] : \A i \in Ids : i \notin RowIds(entity) => t[i] = 0 }

\* FROM entity WHERE _class = 'Document' AND embedding IS NOT NULL
VectorRows == { r \in entity : r.class = "Document" /\ r.embedding # NULL }

\* FROM entity WHERE search_vector @@ plainto_tsquery('codebase_search', $2)
KeywordRows(rank_cd) == { r \in entity : rank_cd[r.id] > 0 }

\* The orders in which a sort can deliver the rows of a set
Orderings(rows) ==
    { o \in [1..Cardinality(rows) -> rows] :
        \A i, j \in 1..Cardinality(rows) : i # j => o[i] # o[j] }

\* OVER (ORDER BY embedding <=> $1::vector): ties in any order
VectorOrders(distance) ==
    { o \in Orderings(VectorRows) :
        \A i, j \in DOMAIN o : i < j => distance[o[i].id] <= distance[o[j].id] }

\* OVER (ORDER BY ts_rank_cd(...) DESC): ties in any order
KeywordOrders(rank_cd) ==
    { o \in Orderings(KeywordRows(rank_cd)) :
        \A i, j \in DOMAIN o : i < j => rank_cd[o[i].id] >= rank_cd[o[j].id] }

\* ROW_NUMBER() of the i-th row of the window
ROW_NUMBER0(i) == i - 1

ROW_NUMBER(i) == i

\* SELECT id, content, metadata, ROW_NUMBER() OVER (...) as rank
RowNumbers(order) ==
    [i \in DOMAIN order |->
        [id |-> order[i].id, content |-> order[i].content, rank |-> ROW_NUMBER(i)]]

\* LIMIT k: the first k rows the query delivers
Limit(rows, k) == SubSeq(rows, 1, IF Len(rows) < k THEN Len(rows) ELSE k)

Range(rows) == { rows[i] : i \in DOMAIN rows }

\* FROM vector_search v JOIN keyword_search k ON v.id = k.id
InnerJoin(V, K) == { j \in [v : V, k : K] : j.v.id = j.k.id }

\* FROM vector_search v FULL OUTER JOIN keyword_search k ON v.id = k.id
FullOuterJoin(V, K) ==
    { j \in [v : V, k : K] : j.v.id = j.k.id }
    \cup { [v |-> v, k |-> NoRow] : v \in { x \in V : x.id \notin RowIds(K) } }
    \cup { [v |-> NoRow, k |-> k] : k \in { x \in K : x.id \notin RowIds(V) } }

COALESCE(a, b) == IF a # NULL THEN a ELSE b

\* Scores are kept as fractions num/den
Plus(a, b) == [num |-> a.num * b.den + b.num * a.den, den |-> a.den * b.den]

Less(a, b) == a.num * b.den < b.num * a.den

\* COALESCE(1.0 / x.rank, 0.0): the reciprocal rank without the constant 60
ReciprocalOfRank(x) ==
    IF x.id = NULL THEN [num |-> 0, den |-> 1] ELSE [num |-> 1, den |-> x.rank]

\* COALESCE(1.0 / (60 + x.rank), 0.0), x.rank being NULL on a side the join
\* filled in
Reciprocal(x) ==
    IF x.id = NULL THEN [num |-> 0, den |-> 1] ELSE [num |-> 1, den |-> 60 + x.rank]

\* CASE WHEN v.id IS NOT NULL AND k.id IS NOT NULL THEN 'both' ...
match_type(v, k) ==
    IF v.id # NULL /\ k.id # NULL THEN "both"
    ELSE IF v.id # NULL THEN "semantic"
    ELSE "lexical"

\* The select list of the fused query
Fused(j) ==
    [document_id |-> COALESCE(j.v.id, j.k.id),
     content     |-> COALESCE(j.v.content, j.k.content),
     rrf_score   |-> Plus(Reciprocal(j.v), Reciprocal(j.k)),
     match_type  |-> match_type(j.v, j.k)]

\* ORDER BY rrf_score DESC: ties in any order
ScoreOrdersUnsorted(rows) == Orderings(rows)

ScoreOrders(rows) ==
    { o \in Orderings(rows) :
        \A i, j \in DOMAIN o : i < j => ~ Less(o[i].rrf_score, o[j].rrf_score) }

\* LIMIT 50 of vector_search and of keyword_search
RankingLimit == 50

\* The outer SELECT over the two CTEs: the join, the select list, ORDER BY
\* rrf_score DESC and LIMIT $3
FuseRankings(vector_search, keyword_search, limit, distance, rank_cd) ==
    LET fused == { Fused(j) : j \in FullOuterJoin(vector_search, keyword_search) }
    IN \E o \in ScoreOrders(fused) :
         search' = [state |-> "done", distance |-> distance, rank_cd |-> rank_cd,
                    limit |-> limit, vector_search |-> vector_search,
                    keyword_search |-> keyword_search, fused |-> fused,
                    rows |-> Limit(o, limit)]

\* executeSearch(queryText, limit): one query per run of the search command
ExecuteSearch(distance, rank_cd, limit) ==
    /\ search.state = "idle"
    /\ \E vo \in VectorOrders(distance), ko \in KeywordOrders(rank_cd) :
         FuseRankings(Range(Limit(RowNumbers(vo), RankingLimit)),
                      Range(Limit(RowNumbers(ko), RankingLimit)),
                      limit, distance, rank_cd)
    /\ UNCHANGED <<pipevars, queuevars, related, archive, cycle>>

NextSearch ==
    /\ search.state = "idle"
    /\ \E distance \in Distances, rank_cd \in RankCds, limit \in 1..MaxLimit :
          ExecuteSearch(distance, rank_cd, limit)

InitSearch ==
    /\ entity \in SearchStores
    /\ relationship = {}
    /\ InitProcess
    /\ checkValidation = FALSE

SpecSearch == InitSearch /\ [][NextSearch]_vars

\* Two rows of the rankings of one search over a large store: one that is at
\* rank v of vector_search and at rank k of keyword_search, and one that is
\* at rank s of one of the two only
RankedRow(i, rank) == [id |-> i, content |-> "s1", rank |-> rank]

FuseTwoRows(v, k, s, side) ==
    /\ search.state = "idle"
    /\ IF side = "semantic" THEN s # v ELSE s # k
    /\ FuseRankings(
          {RankedRow("d1", v)} \cup (IF side = "semantic" THEN {RankedRow("d2", s)} ELSE {}),
          {RankedRow("d1", k)} \cup (IF side = "lexical" THEN {RankedRow("d2", s)} ELSE {}),
          2, NoSearch.distance, NoSearch.rank_cd)
    /\ UNCHANGED <<pipevars, queuevars, related, archive, cycle>>

NextFusion ==
    /\ search.state = "idle"
    /\ \E v \in 1..RankingLimit, k \in 1..RankingLimit, s \in 1..RankingLimit,
          side \in {"semantic", "lexical"} : FuseTwoRows(v, k, s, side)

SpecFusion == InitStore /\ [][NextFusion]_vars

-----------------------------------------------------------------------------
\* One-hop lookup: getRelationships

\* Stores a lookup can find: entity rows as executeCommands writes them and
\* at most MaxEdges relationship rows between them that satisfy the primary
\* key, the foreign keys and CHECK (source_entity_id <> target_entity_id)
RelatedEntityRows ==
    { DocumentRow(documentData(filePath, c)) : filePath \in Paths, c \in Classifications }
    \cup { ConceptRow([id |-> i, type |-> t, metadata |-> NULL]) :
             i \in Concepts, t \in {"Tool", NULL} }

RelatedEntityStores ==
    { rows \in SUBSET RelatedEntityRows : \A a, b \in rows : a.id = b.id => a = b }

RelatedRelationshipRows(entities) ==
    { r \in [source : RowIds(entities), target : RowIds(entities),
             class : {"MENTIONS", "USES"}, metadata : {"{}"}] : r.source # r.target }

RelatedRelationshipStores(entities) ==
    { rows \in SUBSET RelatedRelationshipRows(entities) : Cardinality(rows) <= MaxEdges }

\* SELECT r._class as relationship, e.id as related_entity, e._type as
\* entity_type, e.metadata
SelectRow(r, e) ==
    [relationship |-> r.class, related_entity |-> e.id, entity_type |-> e.type,
     metadata |-> e.metadata]

\* The rows a SELECT delivers for the joined pairs, with their multiplicity
SelectRows(pairs) ==
    [row \in { SelectRow(x[1], x[2]) : x \in pairs } |->
        Cardinality({ x \in pairs : SelectRow(x[1], x[2]) = row })]

\* FROM relationship r JOIN entity e ON e.id = r.target_entity_id
\* WHERE r.source_entity_id = $1
Outgoing(entityId) ==
    SelectRows({ x \in relationship \X entity :
                   x[2].id = x[1].target /\ x[1].source = entityId })

\* FROM relationship r JOIN entity e ON e.id = r.source_entity_id
\* WHERE r.target_entity_id = $1
IncomingJoinedOnTarget(entityId) ==
    SelectRows({ x \in relationship \X entity :
                   x[2].id = x[1].target /\ x[1].target = entityId })

Incoming(entityId) ==
    SelectRows({ x \in relationship \X entity :
                   x[2].id = x[1].source /\ x[1].target = entityId })

\* ... UNION ALL ...
getRelationships(entityId) == Outgoing(entityId) (+) Incoming(entityId)

\* getRelationships(entityId): one query per run of the relationships command
GetRelationships(entityId) ==
    /\ related.state = "idle"
    /\ related' = [state |-> "done", entityId |-> entityId,
                   rows |-> getRelationships(entityId)]
    /\ UNCHANGED <<pipevars, queuevars, search, archive, cycle>>

NextRelationships ==
    \E entityId \in Ids : GetRelationships(entityId)

InitRelationships ==
    /\ entity \in RelatedEntityStores
    /\ relationship \in RelatedRelationshipStores(entity)
    /\ InitProcess
    /\ checkValidation = FALSE

SpecRelationships == InitRelationships /\ [][NextRelationships]_vars

-----------------------------------------------------------------------------
\* archiveAndClean, handler by handler

\* resolve / reject: a promise settles once, later calls change nothing
Resolve(a) == IF a.settled = "pending" THEN [a EXCEPT !.settled = "resolved"] ELSE a

Reject(a, reason) ==
    IF a.settled = "pending"
    THEN [a EXCEPT !.settled = "rejected", !.reason = reason]
    ELSE a

\* The body of the promise: existsSync, createWriteStream, archiver('zip'),
\* the handlers, pipe, archive.file and finalize
ArchiveAndCleanCall(filePath) ==
    /\ archive.state = "idle"
    /\ archive' = IF filePath \notin files
                  THEN Reject([NoArchive EXCEPT !.state = "closed", !.filePath = filePath],
                              "File not found")
                  ELSE [NoArchive EXCEPT !.state = "open", !.filePath = filePath,
                                         !.entry = "queued"]
    /\ UNCHANGED <<pipevars, queuevars, search, related, cycle>>

\* The archiver reads the queued file into the container
EntryAppended ==
    /\ archive.state = "open" /\ archive.entry = "queued"
    /\ archive.filePath \in files
    /\ archive' = [archive EXCEPT !.entry = "appended"]
    /\ UNCHANGED <<pipevars, queuevars, search, related, cycle>>

\* archive.on('warning'): the archiver could not stat the queued file and
\* drops the entry; ENOENT is logged, any other code rejects
WarningCodes == {"ENOENT", "EACCES"}

ArchiveWarning(code) ==
    /\ archive.state = "open" /\ archive.entry = "queued"
    /\ code = "ENOENT" <=> archive.filePath \notin files
    /\ archive' = IF code = "ENOENT"
                  THEN [archive EXCEPT !.entry = "skipped"]
                  ELSE Reject([archive EXCEPT !.entry = "skipped"], code)
    /\ UNCHANGED <<pipevars, queuevars, search, related, cycle>>

\* archive.on('error', reject): the archive fails while it reads the file;
\* its output may or may not be closed afterwards
ArchiveError ==
    /\ archive.state = "open" /\ archive.entry = "queued"
    /\ \E state \in {"open", "aborted"} :
         archive' = Reject([archive EXCEPT !.entry = "failed", !.state = state],
                           "archiver error")
    /\ UNCHANGED <<pipevars, queuevars, search, related, cycle>>

\* output.on('close'): fs.unlinkSync(filePath), then resolve; a failed unlink
\* rejects
OutputClose ==
    /\ archive.state = "open" /\ archive.entry # "queued"
    /\ \/ /\ archive.filePath \in files
          /\ files' = files \ {archive.filePath}
          /\ archive' = Resolve([archive EXCEPT !.state = "closed", !.unlinked = TRUE])
       \/ /\ files' = files
          /\ archive' = Reject([archive EXCEPT !.state = "closed"],
                               "Failed to delete original")
    /\ UNCHANGED <<entity, relationship, checkValidation, runs, pc, outcome, error,
                   job, mutated, txvars, queuevars, search, related, cycle>>

\* Something else removes the file while the archive is being written
FileVanishes ==
    /\ archive.state = "open"
    /\ archive.filePath \in files
    /\ files' = files \ {archive.filePath}
    /\ UNCHANGED <<entity, relationship, checkValidation, runs, pc, outcome, error,
                   job, mutated, txvars, queuevars, search, related, archive, cycle>>

\* The call is over (promise settled, streams finished); the next job's
\* archive step makes a new call
ArchiveReturns ==
    /\ archive.state \in {"closed", "aborted"}
    /\ archive.settled # "pending"
    /\ archive' = NoArchive
    /\ UNCHANGED <<pipevars, queuevars, search, related, cycle>>

NextArchive ==
    \/ \E filePath \in Paths : ArchiveAndCleanCall(filePath) /\ UNCHANGED files
    \/ EntryAppended /\ UNCHANGED files
    \/ \E code \in WarningCodes : ArchiveWarning(code) /\ UNCHANGED files
    \/ ArchiveError /\ UNCHANGED files
    \/ OutputClose
    \/ FileVanishes
    \/ ArchiveReturns /\ UNCHANGED files
    \/ \E filePath \in Paths :
         CreateFile(filePath) /\ UNCHANGED <<queuevars, search, related, archive, cycle>>

InitArchive ==
    /\ entity = {}
    /\ relationship = {}
    /\ InitProcess
    /\ checkValidation = FALSE

SpecArchive == InitArchive /\ [][NextArchive]_vars

----------------------------------------------------------------------------
\* Properties

Nodes(edges) == { e[1] : e \in edges } \cup { e[2] : e \in edges }

RECURSIVE Closure(_, _)
Closure(S, edges) ==
    LET T == S \cup { e[2] : e \in { x \in edges : x[1] \in S } }
    IN IF T = S THEN S ELSE Closure(T, edges)

\* b can be reached from a by following one or more edges forward
Reaches(a, b, edges) ==
    b \in Closure({ e[2] : e \in { x \in edges : x[1] = a } }, edges)

Acyclic(edges) == \A x \in Nodes(edges) : ~ Reaches(x, x, edges)

ValidRelationship(c) ==
    c.action = "INSERT_RELATIONSHIP" /\ c.source # NULL /\ c.target # NULL

ValidRelationships == { c \in Commands : ValidRelationship(c) }

EntityInserts == { c \in Commands : c.action = "INSERT_ENTITY" /\ c.id # NULL }

\* Worker w's loop runs the valid INSERT_RELATIONSHIP c in this step: the row
\* of c is the one handed to the table
RunsRelationship(w, c) ==
    /\ cmd'[w] = RelationshipRow(c)
    /\ ExecuteCommand(w, c)

InvalidCommand(c) ==
    IF c.action = "INSERT_ENTITY" THEN c.id = NULL
    ELSE c.source = NULL \/ c.target = NULL

InvalidCommands == { c \in Commands : InvalidCommand(c) }

\* Worker w's call of executeCommands throws in this step
Throws(w) == InExecute(w) /\ outcome'[w] = "failed"

\* Worker w's call of executeCommands returns in this step
Returns(w) == InExecute(w) /\ outcome'[w] = "none" /\ pc'[w] \notin {"execute", "loop", "insert"}

\* C1: executeCommands is all-or-nothing. The committed store changes only in
\* the step in which a call returns, and then it holds the document upsert and
\* the effect of every command the batch ran; a call that throws leaves the
\* committed store as it was, so no partly applied batch is ever committed.
C1_AllOrNothing ==
    [][ /\ \A w \in Workers :
            /\ Throws(w) => store' = store /\ ~ mutated'[w]
            /\ Returns(w) =>
                 /\ entity' = EntityView(w)
                 /\ relationship' = RelationshipView(w)
                 /\ \E r \in entity' :
                        LET d == documentData(job[w].filePath, job[w].c) IN
                        /\ r.id = d.id
                        /\ r.content = d.content
                        /\ r.embedding = d.embedding
                        /\ r.metadata = d.metadata
        /\ store' # store => \E w \in Workers : Returns(w) ]_vars

\* A call threw after its document upsert and the store still holds what an
\* earlier call committed
C1_Witness ==
    \E w \in Workers :
        /\ outcome[w] = "failed"
        /\ error[w] = "foreign_key_violation"
        /\ entity # {}
        /\ ~ mutated[w]

\* C2: with executeCommands calls run one at a time from an empty store, the
\* committed relationship rows never contain a directed cycle.
C2_CommittedGraphAcyclic == Acyclic(Edges(relationship))

\* Two calls have committed three edges, two of them in a path: one more
\* edge could close a cycle
C2_Witness ==
    /\ \E e1 \in Edges(relationship), e2 \in Edges(relationship) : e1[2] = e2[1]
    /\ Cardinality(Edges(relationship)) = 3

\* C3: with two workers whose executeCommands calls overlap, the committed
\* relationship graph has no directed cycle once both have finished.
C3_ConcurrentGraphAcyclic ==
    (\A w \in Workers : ~ InExecute(w)) => Acyclic(Edges(relationship))

\* C4: when the committed store holds a path from v to u, a batch's
\* INSERT_RELATIONSHIP u -> v throws, and the entity and relationship tables
\* stay exactly as they were before the call (no document row upserted).
C4_CycleInsertRejected ==
    [][ \A w \in Workers : At(w, "loop") => \A c \in ValidRelationships :
          ( /\ RunsRelationship(w, c)
            /\ Reaches(c.target, c.source, Edges(relationship)) )
          => /\ outcome'[w] = "failed"
             /\ error'[w] = "check_violation"
             /\ store' = store
             /\ ~ mutated'[w]
             /\ tins'[w] = {} /\ tupd'[w] = {} /\ trel'[w] = {} ]_vars

\* A call threw on a row u -> v while the committed rows hold a path v ~> u
C4_Witness ==
    \E w \in Workers :
        /\ outcome[w] = "failed"
        /\ error[w] = "check_violation"
        /\ cmd[w] # NoCommand
        /\ cmd[w].source # cmd[w].target
        /\ Reaches(cmd[w].target, cmd[w].source, Edges(relationship))
        /\ ~ mutated[w]

\* C5: the cycle check of an INSERT_RELATIONSHIP sees the edges inserted
\* earlier in the same batch: u -> v is rejected whenever the committed edges
\* together with the batch's own earlier edges hold a path v ~> u, and none
\* of the batch's edges is committed.
C5_CheckSeesOwnBatch ==
    [][ \A w \in Workers : At(w, "loop") => \A c \in ValidRelationships :
          ( /\ RunsRelationship(w, c)
            /\ Reaches(c.target, c.source, Edges(RelationshipView(w))) )
          => /\ outcome'[w] = "failed"
             /\ error'[w] = "check_violation"
             /\ trel'[w] = {}
             /\ relationship' = relationship ]_vars

\* A call threw on a row u -> v although the committed rows hold no path
\* v ~> u: the path ran through edges of its own batch
C5_Witness ==
    \E w \in Workers :
        /\ outcome[w] = "failed"
        /\ error[w] = "check_violation"
        /\ cmd[w] # NoCommand
        /\ cmd[w].source # cmd[w].target
        /\ ~ Reaches(cmd[w].target, cmd[w].source, Edges(relationship))

\* C6: after a run for a filePath has committed, the entity table holds
\* exactly one row with the path's documentId, carrying the content, embedding
\* and metadata of that run (also when an earlier run had written the row),
\* and no (source, target, class) triple is held twice.
C6_ReingestUpdatesOneRow ==
    \A w \in Workers :
        At(w, "archive") =>
            LET d == documentData(job[w].filePath, job[w].c)
                rows == { r \in entity : r.id = d.id }
            IN /\ Cardinality(rows) = 1
               /\ \A r \in rows : /\ r.content = d.content
                                  /\ r.embedding = d.embedding
                                  /\ r.metadata = d.metadata
               /\ Cardinality(Triples(relationship)) = Cardinality(relationship)

\* The second run for a path has committed: the row keeps the type the first
\* run gave it and carries the content of the second
C6_Witness ==
    \E w \in Workers :
        /\ At(w, "archive")
        /\ job[w].c = 2
        /\ \E r \in entity :
              /\ r.id = documentId(job[w].filePath)
              /\ r.class = "Document"
              /\ r.type = classified(1).documentType
              /\ r.content = classified(2).summary
        /\ relationship # {}

\* C7 (state part): no relationship row is a self-loop and no triple is held
\* by two rows, committed or pending.
C7_RelationshipKeys ==
    /\ \A r \in relationship : r.source # r.target
    /\ Cardinality(Triples(relationship)) = Cardinality(relationship)
    /\ \A w \in Workers :
          /\ \A r \in trel[w] : r.source # r.target
          /\ Cardinality(Triples(RelationshipView(w))) =
                Cardinality(RelationshipView(w))

C8_FirstWriterWins ==
    [][ /\ \A w \in Workers : At(w, "loop") => \A c \in EntityInserts :
            ( /\ c.id \in RowIds(EntityView(w))
              /\ ExecuteCommand(w, c) )
            => /\ EntityView(w)' = EntityView(w)
               /\ At(w, "loop")'
        /\ \A r \in entity :
             \/ entity' = entity
             \/ r \in entity'
             \/ \E r2 \in entity' :
                  /\ r2.id = r.id /\ r2.type = r.type /\ r2.class = r.class
                  /\ \E w \in Workers :
                        InExecute(w) /\ documentId(job[w].filePath) = r.id ]_vars

\* An INSERT_ENTITY met an existing row of a concept and the transaction
\* goes on
C8_Witness ==
    \E w \in Workers :
        /\ At(w, "loop")
        /\ last[w] = "entity_exists"
        /\ \E r \in entity : r.class = "Concept"

\* C9: a command with a missing required field is skipped: the transaction
\* keeps every write it holds, does not fail, and can still commit.
C9_InvalidCommandSkipped ==
    /\ [][ \A w \in Workers : At(w, "loop") => \A c \in InvalidCommands :
              ExecuteCommand(w, c)
              => /\ At(w, "loop")'
                 /\ last'[w] = "skipped"
                 /\ tins' = tins /\ tupd' = tupd /\ trel' = trel
                 /\ store' = store ]_vars
    /\ [](\A w \in Workers :
            At(w, "loop") /\ last[w] = "skipped" => ENABLED Commit(w))

\* A command was skipped in a transaction that holds the document and a
\* relationship row and goes on
C9_Witness ==
    \E w \in Workers :
        /\ At(w, "loop")
        /\ last[w] = "skipped"
        /\ tins[w] \cup tupd[w] # {}
        /\ trel[w] # {}

\* C10 as stated: whatever stage of an attempt fails, the Graph Store is as
\* it was before the attempt started.
C10_AnyFailureLeavesStore ==
    \A w \in Workers : outcome[w] = "failed" => ~ mutated[w]

\* C10: a failing stage aborts the attempt with its error; when the stage is
\* one up to and including Execute the Graph Store is as it was before the
\* attempt started, and only a failure of Archive comes after the attempt's
\* transaction has committed.
C10_FailureBeforeArchiveLeavesStore ==
    \A w \in Workers :
        outcome[w] = "failed" =>
            /\ error[w] # "none"
            /\ pc[w] # "archive" => ~ mutated[w]
            /\ mutated[w] => pc[w] = "archive" /\ error[w] = "archival"

\* An attempt failed in Execute on a store that an earlier attempt filled
C10_Witness ==
    \E w \in Workers :
        /\ outcome[w] = "failed"
        /\ pc[w] \in {"loop", "insert"}
        /\ error[w] \in {"check_violation", "foreign_key_violation"}
        /\ entity # {}
        /\ ~ mutated[w]

\* A step in which the attempt of job id ends with an error
AttemptFails(id) ==
    jobs[id].state = "active" /\ jobs'[id].attemptsMade = jobs[id].attemptsMade + 1

\* A step in which job id starts an attempt
AttemptStarts(id) == jobs[id].state # "active" /\ jobs'[id].state = "active"

StrictlyIncreasing(seq) ==
    \A i \in 1..Len(seq), k \in 1..Len(seq) : i < k => seq[i] < seq[k]

\* C11: a job of the watcher or the batch command whose attempt k <= 3
\* succeeds after k-1 failures is completed; the retry after the first
\* failure is scheduled 2000 ms later, the one after the second 4000 ms later
\* (2000 * 2^attempt, attempts counted from 0), no retry starts before its
\* time, and the recorded delays strictly increase.
C11_RetryWithBackoff ==
    /\ [](\A id \in JobIds :
            /\ StrictlyIncreasing(jobs[id].delays)
            /\ jobs[id].state = "completed" =>
                  /\ jobs[id].started = jobs[id].attemptsMade + 1
                  /\ jobs[id].started <= jobs[id].attempts)
    /\ [][ \A id \in JobIds :
            /\ jobs[id].state = "active" /\ jobs'[id].state = "active"
                  => jobs'[id] = jobs[id]
            /\ (AttemptFails(id) /\ jobs'[id].state # "failed") =>
                  LET delay == IF jobs'[id].attemptsMade = 1 THEN 2000 ELSE 4000
                  IN /\ jobs'[id].state = "delayed"
                     /\ jobs'[id].readyAt = now + delay
                     /\ jobs'[id].delays = Append(jobs[id].delays, delay)
            /\ AttemptStarts(id) =>
                  /\ jobs[id].state \in {"waiting", "delayed"}
                  /\ now >= jobs[id].readyAt
            /\ jobs[id].state = "completed" => jobs'[id] = jobs[id] ]_vars

\* A job failed twice, was retried after 2000 and 4000 ms and completed on
\* its third attempt
C11_Witness ==
    \E id \in JobIds :
        /\ jobs[id].state = "completed"
        /\ jobs[id].started = 3
        /\ jobs[id].attemptsMade = 2
        /\ jobs[id].delays = <<2000, 4000>>

\* C12: a job is started at most maxAttempts times (3 for jobs of the watcher
\* and the batch command); a failed attempt with attempts left requeues the
\* job, the failure of the last attempt makes it failed for good, never to
\* run again, and each failure's error is reported by the failed handler.
C12_AttemptsBounded ==
    /\ [](\A id \in JobIds :
            /\ jobs[id].started <= jobs[id].attempts
            /\ jobs[id].attempts <= 3
            /\ jobs[id].state = "failed" =>
                  /\ jobs[id].attemptsMade = jobs[id].attempts
                  /\ jobs[id].reported = jobs[id].failedReason
                  /\ jobs[id].reported \in Errors)
    /\ [][ /\ AddWatcherJob => jobs'[NextId].attempts = 3
           /\ AddBatchJob => jobs'[NextId].attempts = 3
           /\ \A id \in JobIds :
                /\ ProcessorThrows(id) =>
                     /\ jobs'[id].attemptsMade = jobs[id].attemptsMade + 1
                     /\ jobs'[id].reported = jobs'[id].failedReason
                     /\ jobs'[id].reported \in Errors
                     /\ IF jobs'[id].attemptsMade < jobs[id].attempts
                        THEN jobs'[id].state \in {"waiting", "delayed"}
                        ELSE jobs'[id].state = "failed"
                /\ jobs[id].state = "failed" => jobs'[id] = jobs[id] ]_vars

\* A job has failed for good on its third attempt and the handler reported
\* the error
C12_Witness ==
    \E id \in JobIds :
        /\ jobs[id].state = "failed"
        /\ jobs[id].started = 3
        /\ jobs[id].attemptsMade = 3
        /\ jobs[id].reported \in Errors

\* C13: at most concurrency (2) jobs are active at any time, however many
\* jobs wait.
C13_ConcurrencyBound == Cardinality(Active) <= concurrency

\* Two jobs are active and a third is ready and has to wait
C13_Witness ==
    /\ Cardinality(Active) = concurrency
    /\ \E id \in JobIds : Ready(jobs[id]) /\ LimiterAllows(limiter, now)

\* The number of logged starts in the window of ms milliseconds that begins
\* with the start logged at position i
StartsInWindow(i, ms) ==
    Cardinality({ k \in i..Len(starts) : starts[k] < starts[i] + ms })

\* C14: in any window of 60000 ms at most 10 job attempts start.
C14_SlidingWindowCap ==
    \A i \in 1..Len(starts) : StartsInWindow(i, 60000) <= 10

\* C16: the job of `process <file>` has one attempt: it is started at most
\* once and never requeued, and the command ends only after the job has
\* completed (exit 0 with the job's result) or failed (with the job's error).
C16_ProcessRunsOnce ==
    /\ [](command.job # 0 =>
            LET j == jobs[command.job] IN
            /\ j.attempts = 1
            /\ j.started <= 1
            /\ j.state \in {"waiting", "active", "completed", "failed"}
            /\ command.state = "exited" =>
                  \/ /\ j.state = "completed"
                     /\ command.code = 0
                     /\ command.output = "success"
                  \/ /\ j.state = "failed"
                     /\ j.attemptsMade = 1
                     /\ command.code = 1
                     /\ command.output = j.failedReason
                     /\ command.output \in Errors)
    /\ [][ command.state = "exited" => command' = command ]_vars

\* The command's job failed on its only attempt and the command ended with
\* the job's error
C16_Witness ==
    /\ command.state = "exited"
    /\ command.job # 0
    /\ jobs[command.job].state = "failed"
    /\ jobs[command.job].started = 1
    /\ command.code = 1

-----------------------------------------------------------------------------
\* C15: a source file is removed only by a job attempt that completes: every
\* step that takes a path out of the files on disk is the step in which an
\* attempt on that path, at its archive stage, ends completed (so an attempt
\* that fails never deletes its file).
C15_FileRemovedOnlyBySuccess ==
    [][\A filePath \in files \ files' :
          \E w \in Workers : /\ At(w, "archive")
                             /\ job[w].filePath = filePath
                             /\ outcome'[w] = "completed"]_vars

-----------------------------------------------------------------------------
\* C17: when extraction returns a text that is empty or holds nothing but
\* whitespace, the attempt fails in that step with the error 'No text
\* extracted from document', still at the extract stage (the classifier and
\* the later stages are not entered), with the store untouched; and an attempt
\* that failed this way has written no row at all.
OnlyWhitespace(text) == \A i \in 1..Len(text) : text[i] \in Whitespace

C17_BlankTextFailsExtraction ==
    /\ [][\A w \in Workers : At(w, "extract") =>
            \A documentText \in Texts :
               OnlyWhitespace(documentText) /\ ExtractTextReturns(w, documentText)
               => /\ outcome'[w] = "failed"
                  /\ error'[w] = "No text extracted from document"
                  /\ pc'[w] = "extract"
                  /\ entity' = entity /\ relationship' = relationship]_vars
    /\ [](\A w \in Workers :
            outcome[w] = "failed" /\ error[w] = "No text extracted from document"
            => pc[w] = "extract" /\ ~ mutated[w])

C17_Witness ==
    \E w \in Workers : /\ outcome[w] = "failed"
                       /\ error[w] = "No text extracted from document"
                       /\ pc[w] = "extract"

-----------------------------------------------------------------------------
\* C18: with checkValidation enabled, a checker answer isValid = false fails
\* the attempt in that step, at the validate stage (embedding, command
\* generation and execution are not entered) with the store untouched, and
\* an attempt that failed this way has written no row; with checkValidation
\* disabled no attempt is ever at the validate stage and a classified
\* document goes straight on to embedding, the stage that follows an answer
\* isValid = true.
C18_ValidationGate ==
    /\ [][\A w \in Workers : At(w, "validate") =>
            /\ RunCheckerReturns(w, FALSE)
               => /\ outcome'[w] = "failed"
                  /\ error'[w] = "Classification validation failed"
                  /\ pc'[w] = "validate"
                  /\ entity' = entity /\ relationship' = relationship
            /\ RunCheckerReturns(w, TRUE)
               => outcome'[w] = "none" /\ pc'[w] = "embed"]_vars
    /\ [][\A w \in Workers : At(w, "classify") /\ At(w, "classify")' = FALSE =>
            \/ outcome'[w] = "failed"
            \/ outcome'[w] = "none"
               /\ pc'[w] = (IF checkValidation THEN "validate" ELSE "embed")]_vars
    /\ [](\A w \in Workers :
            /\ pc[w] = "validate" => checkValidation
            /\ outcome[w] = "failed" /\ error[w] = "Classification validation failed"
               => pc[w] = "validate" /\ ~ mutated[w] /\ checkValidation)

C18_Witness ==
    \E w \in Workers : /\ checkValidation
                       /\ outcome[w] = "failed"
                       /\ error[w] = "Classification validation failed"
                       /\ pc[w] = "validate"

-----------------------------------------------------------------------------
\* C19: the fused score of every row a search returns is 1/(60 + rv) +
\* 1/(60 + rk), rv and rk being the row's ranks in the vector and in the
\* lexical ranking and a ranking it is absent from contributing 0; the ranks
\* of a ranking are the positions 1, 2, ... of its rows, nearer (for the
\* lexical ranking: higher scoring) rows first.
RankIn(ranking, i) == (CHOOSE r \in ranking : r.id = i).rank

\* score = nv/dv + nk/dk, as an equation between integers
ScoreIs(score, nv, dv, nk, dk) == score.num * dv * dk = score.den * (nv * dk + nk * dv)

IsRanking(ranking, key) ==
    /\ { r.rank : r \in ranking } = 1..Cardinality(ranking)
    /\ \A a, b \in ranking : key[a.id] < key[b.id] => a.rank < b.rank

-----------------------------------------------------------------------------
\* C20: the matchType of every fused row, and so of every returned row, is
\* 'both' exactly when its id is in both rankings, 'semantic' exactly when it
\* is in the vector ranking only and 'lexical' exactly when it is in the
\* lexical ranking only; every id that is in at least one ranking has exactly
\* one fused row, and the returned rows are fused rows.
C20_MatchType ==
    search.state = "done" =>
        LET V == RowIds(search.vector_search)
            K == RowIds(search.keyword_search)
        IN /\ { r.document_id : r \in search.fused } = V \cup K
           /\ Cardinality(search.fused) = Cardinality(V \cup K)
           /\ Range(search.rows) \subseteq search.fused
           /\ \A r \in search.fused :
                /\ r.match_type = "both" <=> r.document_id \in V \cap K
                /\ r.match_type = "semantic" <=> r.document_id \in V \ K
                /\ r.match_type = "lexical" <=> r.document_id \in K \ V

\* a search that returns a row of each match type
C20_Witness ==
    /\ search.state = "done"
    /\ { search.rows[x].match_type : x \in DOMAIN search.rows }
         = {"both", "semantic", "lexical"}

-----------------------------------------------------------------------------
\* C21: a search returns at most `limit` rows, in an order in which the fused
\* score never increases, and no fused candidate it leaves out has a higher
\* score than a row it returns; it leaves candidates out only when it
\* returns `limit` rows.
C21_TopLimitByScore ==
    search.state = "done" =>
        /\ Len(search.rows) <= search.limit
        /\ \A x, y \in DOMAIN search.rows :
             x < y => ~ Less(search.rows[x].rrf_score, search.rows[y].rrf_score)
        /\ \A out \in search.fused \ Range(search.rows) :
             /\ Len(search.rows) = search.limit
             /\ \A x \in DOMAIN search.rows :
                  ~ Less(search.rows[x].rrf_score, out.rrf_score)

\* a search that returns two rows of different score and leaves a candidate out
C21_Witness ==
    /\ search.state = "done"
    /\ Len(search.rows) = 2
    /\ Less(search.rows[2].rrf_score, search.rows[1].rrf_score)
    /\ search.fused \ Range(search.rows) # {}

-----------------------------------------------------------------------------
\* C22: every row a search returns is a Document entity: no row of class
\* Concept is in a result list.
C22_ResultsAreDocuments ==
    search.state = "done" =>
        \A x \in DOMAIN search.rows :
            \E r \in entity : r.id = search.rows[x].document_id /\ r.class = "Document"

-----------------------------------------------------------------------------
\* C23: the rows relationships(entityId) returns correspond one to one to
\* the relationship rows whose source or target is entityId: each such edge
\* has its own row with the edge's class and the id, type and metadata of the
\* entity at its other end, and there is no further row.
Touching(entityId) ==
    { r \in relationship : r.source = entityId \/ r.target = entityId }

OtherEnd(r, entityId) ==
    CHOOSE e \in entity : e.id = (IF r.source = entityId THEN r.target ELSE r.source)

ExpectedRow(r, entityId) ==
    [relationship |-> r.class, related_entity |-> OtherEnd(r, entityId).id,
     entity_type |-> OtherEnd(r, entityId).type,
     metadata |-> OtherEnd(r, entityId).metadata]

C23_OneRowPerTouchingEdge ==
    related.state = "done" =>
        LET expected == { ExpectedRow(r, related.entityId) : r \in Touching(related.entityId) }
        IN /\ BagToSet(related.rows) = expected
           /\ \A row \in expected :
                CopiesIn(row, related.rows)
                  = Cardinality({ r \in Touching(related.entityId) :
                                    ExpectedRow(r, related.entityId) = row })

\* a lookup of an entity with an outgoing and an incoming edge, in a store
\* with a further edge that does not touch it
C23_Witness ==
    /\ related.state = "done"
    /\ \E r \in relationship : r.source = related.entityId
    /\ \E r \in relationship : r.target = related.entityId
    /\ relationship \ Touching(related.entityId) # {}
    /\ BagCardinality(related.rows) = Cardinality(Touching(related.entityId))

-----------------------------------------------------------------------------
\* C24: archiveAndClean unlinks the original only once the file has been
\* appended to the archive container, and a call whose unlink fails after
\* the append ends rejected, never resolved.
C24_DeleteAfterAppend ==
    /\ [][archive'.unlinked /\ ~ archive.unlinked => archive.entry = "appended"]_vars
    /\ [](archive.state = "closed" /\ archive.entry = "appended" /\ ~ archive.unlinked
            => archive.settled = "rejected")

-----------------------------------------------------------------------------
\* C25: a classifier answer that does not follow the declared schema fails
\* the attempt at the classify stage: no attempt is ever at a later stage
\* with such an answer, and no entity row is written from one.
C25_NonConformingAnswerFailsClassify ==
    /\ \A w \in Workers :
         outcome[w] = "none" /\ pc[w] \notin {"idle", "extract", "classify", "done"}
         => classificationSchema(classified(job[w].c))
    /\ \A r \in entity :
         r.class = "Document" => r.type \in { classified(c).documentType : c \in Classifications }

-----------------------------------------------------------------------------
\* C26: when executeCommands runs the batch of the expected shape for a
\* classification with n distinct entities on a store that holds neither the
\* document's row nor a row of any of those entities, its commit leaves
\* exactly one row with id documentId, of class Document, one Concept row
\* per entity and one MENTIONS relationship from documentId to each of them
\* (n + 1 new entity rows and n new relationship rows in all), and
\* relationships(documentId) lists exactly the n concepts.
C26_ExpectedBatchBuildsGraph ==
    [][\A w \in Workers : At(w, "loop") =>
         LET d  == documentId(job[w].filePath)
             es == { classifiedEntities(job[w].c)[k] : k \in 1..Len(classifiedEntities(job[w].c)) }
         IN /\ Commit(w)
            /\ n[w] = 2 * Len(classifiedEntities(job[w].c))
            /\ ({d} \cup es) \cap RowIds(entity) = {}
            => /\ RowIds(entity' \ entity) = {d} \cup es
               /\ Cardinality(entity' \ entity) = Cardinality(es) + 1
               /\ entity \subseteq entity'
               /\ \A r \in entity' : r.id = d => r.class = "Document"
               /\ \A r \in entity' : r.id \in es => r.class = "Concept"
               /\ Triples(relationship' \ relationship) = { <<d, e, "MENTIONS">> : e \in es }
               /\ Cardinality(relationship' \ relationship) = Cardinality(es)
               /\ relationship \subseteq relationship'
               /\ { row.related_entity : row \in BagToSet(getRelationships(d)') } = es
               /\ BagCardinality(getRelationships(d)') = Cardinality(es)]_vars

\* the first call, for a classification with two entities, has committed
C26_Witness ==
    /\ runs = 1
    /\ pc[1] = "archive"
    /\ job[1].c = 1
    /\ Cardinality(entity) = 3
    /\ Cardinality(relationship) = 2

-----------------------------------------------------------------------------
\* C27: on an acyclic edge set has_cycle(u, v) returns TRUE exactly when
\* u = v or u can be reached from v along existing edges, and FALSE
\* otherwise (so forward paths from v that meet again without reaching u do
\* not make it TRUE).
C27_HasCycleIsReachability ==
    cycle.state = "done" =>
        /\ Acyclic(cycle.edges)
        /\ cycle.result <=> (cycle.u = cycle.v \/ Reaches(cycle.v, cycle.u, cycle.edges))

\* a call that answers FALSE for an edge u -> v with two forward paths from
\* v that meet again
C27_Witness ==
    /\ cycle.state = "done"
    /\ ~ cycle.result
    /\ cycle.u # cycle.v
    /\ \E a, b, c \in DagNodes :
         /\ a # b
         /\ {<<cycle.v, a>>, <<cycle.v, b>>, <<a, c>>, <<b, c>>} \subseteq cycle.edges

-----------------------------------------------------------------------------
\* C28: within a job attempt the stages follow one another in the order
\* Extract, Classify, Validate (when enabled), Generate commands, Embed,
\* Execute, Archive: an attempt is at one stage at a time, and it moves to a
\* stage only from the stage before it in that order, without having failed.
StageOf(stage) == IF stage \in {"execute", "loop", "insert"} THEN "execute" ELSE stage

ClaimedOrder ==
    {<<"extract", "classify">>, <<"validate", "generate">>, <<"generate", "embed">>,
     <<"embed", "execute">>, <<"execute", "archive">>, <<"archive", "done">>}
    \cup (IF checkValidation THEN {<<"classify", "validate">>}
                             ELSE {<<"classify", "generate">>})

C28_StagesInClaimedOrder ==
    [][\A w \in Workers :
         StageOf(pc'[w]) # StageOf(pc[w]) =>
            \/ pc'[w] = "extract" /\ (pc[w] = "idle" \/ outcome[w] # "none")
            \/ /\ outcome[w] = "none"
               /\ <<StageOf(pc[w]), StageOf(pc'[w])>> \in ClaimedOrder]_vars

-----------------------------------------------------------------------------
\* C29: when every attempt returns or throws, time passes and the worker
\* takes jobs whenever a slot and the limiter allow, every job that is
\* waiting, delayed or active is eventually completed or failed for good.
Pending(id) == jobs[id].state \in {"waiting", "delayed", "active"}

Settled(id) == jobs[id].state \in {"completed", "failed"}

C29_EveryJobSettles == \A id \in JobIds : Pending(id) ~> Settled(id)

\* A job is settled by its last attempt, which the limiter had held back to
\* the end of the window that the backlog had used up
C29_Witness ==
    \E id \in JobIds : /\ Settled(id)
                       /\ jobs[id].started = maxRetries
                       /\ now >= WorkerOptions.limiter.duration

-----------------------------------------------------------------------------
\* C30: two jobs that run at the same time on the same document id, or on
\* the same concepts, leave one row per entity id and one row per (source,
\* target, class), and the store they leave is the store that the
\* transactions that committed leave when run one after the other in some
\* order.

\* The store after one transaction with the expected batch of job j, run
\* alone on store s
TransactionResult(s, j) ==
    LET d == documentData(j.filePath, j.c)
        batch == ExpectedBatch(j.filePath, j.c)
        documents ==
            IF d.id \in RowIds(s.entity)
            THEN { IF r.id = d.id THEN UpsertRow(d, r) ELSE r : r \in s.entity }
            ELSE s.entity \cup {DocumentRow(d)}
        concepts ==
            { ConceptRow(batch[k]) :
                k \in { i \in DOMAIN batch : /\ batch[i].action = "INSERT_ENTITY"
                                             /\ batch[i].id \notin RowIds(documents) } }
        edges ==
            { RelationshipRow(batch[k]) :
                k \in { i \in DOMAIN batch : batch[i].action = "INSERT_RELATIONSHIP" } }
    IN [entity |-> documents \cup concepts,
        relationship |-> s.relationship \cup
            { r \in edges : Triple(r) \notin Triples(s.relationship) }]

RECURSIVE SerialResult(_, _)
SerialResult(s, order) ==
    IF order = <<>> THEN s
    ELSE SerialResult(TransactionResult(s, job[Head(order)]), Tail(order))

Finished(w) == pc[w] # "idle" /\ ~ InExecute(w)

Committed == { w \in Workers : pc[w] = "archive" }

C30_ConcurrentJobsSerialise ==
    (\A w \in Workers : Finished(w)) =>
        /\ \A a, b \in entity : a.id = b.id => a = b
        /\ \A a, b \in relationship : Triple(a) = Triple(b) => a = b
        /\ \E order \in Orderings(Committed) :
              [entity |-> entity, relationship |-> relationship]
                  = SerialResult([entity |-> {}, relationship |-> {}], order)

\* Both jobs have committed: two for the same file with different
\* classifications, so that one document upsert has overwritten the other
C30_Witness ==
    /\ Committed = Workers
    /\ job[1].filePath = job[2].filePath
    /\ job[1].c # job[2].c

-----------------------------------------------------------------------------
\* C31: in every committed store only Document rows have content or an
\* embedding, and once a job's transaction has committed, the row whose id
\* is the job's documentId is a Document row.
C31_ContentOnlyOnDocuments ==
    /\ \A r \in entity :
          (r.content # NULL \/ r.embedding # NULL) => r.class = "Document"
    /\ \A w \in Workers :
          pc[w] = "archive" =>
             \A r \in entity :
                r.id = documentId(job[w].filePath) => r.class = "Document"

-----------------------------------------------------------------------------
\* C32: in every committed store both endpoints of every relationship row
\* are entity rows, and the insert of a relationship row whose source or
\* target is not in the entity table at that moment fails the transaction,
\* which is rolled back: the committed store is as it was and nothing of the
\* batch is left to commit.
EndpointsExist(rows, entities) ==
    \A r \in rows : r.source \in RowIds(entities) /\ r.target \in RowIds(entities)

MissingEndpoint(w) ==
    /\ At(w, "insert")
    /\ Triple(cmd[w]) \notin Triples(RelationshipView(w))
    /\ ~ EndpointsExist({cmd[w]}, EntityView(w))

C32_RelationshipEndpointsExist ==
    /\ [](EndpointsExist(relationship, entity))
    /\ [][MissingEndpoint(1) =>
            /\ outcome'[1] = "failed"
            /\ UNCHANGED <<entity, relationship>>
            /\ tins'[1] = {} /\ tupd'[1] = {} /\ trel'[1] = {}]_vars

\* A batch was rolled back at a relationship with an endpoint that no entity
\* row has, on a store that earlier batches have filled
C32_Witness ==
    /\ error[1] = "foreign_key_violation"
    /\ ~ EndpointsExist({cmd[1]}, entity)
    /\ relationship # {}

-----------------------------------------------------------------------------
\* C33: no step of an executeCommands call removes an entity id or a
\* relationship triple from the committed store, so the MENTIONS edges of an
\* earlier ingestion of a path are still there after the path is ingested
\* again with a classification that lists other, fewer entities.
C33_StoreOnlyGrows ==
    [][/\ RowIds(entity) \subseteq RowIds(entity')
       /\ Triples(relationship) \subseteq Triples(relationship')]_vars

\* A path ingested with the one-entity classification has committed, and the
\* store holds its document's edges to both entities of the other
\* classification and to the one of this
C33_Witness ==
    /\ pc[1] = "archive"
    /\ Len(classifiedEntities(job[1].c)) = 1
    /\ \E other \in Classifications :
          /\ Len(classifiedEntities(other)) > 1
          /\ \A k \in 1..Len(classifiedEntities(other)) :
                <<documentId(job[1].filePath), classifiedEntities(other)[k], "MENTIONS">>
                    \in Triples(relationship)
    /\ <<documentId(job[1].filePath), classifiedEntities(job[1].c)[1], "MENTIONS">>
          \in Triples(relationship)

-----------------------------------------------------------------------------
\* C34: with the constant 60 and rankings of at most 50 entries, a row that
\* is in both rankings has a strictly higher fused score than a row that is
\* in one ranking only, whatever their ranks are, and comes before it in the
\* returned list.
C34_BothOutranksSingle ==
    search.state = "done" =>
        /\ \A b, o \in search.fused :
              b.match_type = "both" /\ o.match_type # "both"
                 => Less(o.rrf_score, b.rrf_score)
        /\ \A x, y \in DOMAIN search.rows :
              search.rows[x].match_type = "both" /\ search.rows[y].match_type # "both"
                 => x < y

\* The closest case: a row at the last rank of both rankings, scored 2/110,
\* next to a row at the first rank of one ranking, scored 1/61
C34_Witness ==
    /\ search.state = "done"
    /\ Len(search.rows) = 2
    /\ search.rows[1].match_type = "both"
    /\ search.rows[1].rrf_score.num * 110 = 2 * search.rows[1].rrf_score.den
    /\ search.rows[2].match_type = "lexical"
    /\ search.rows[2].rrf_score.num * 61 = search.rows[2].rrf_score.den

-----------------------------------------------------------------------------
\* C35: a source file is taken off the disk only by an attempt on that file
\* that is at its archive stage, after its Execute stage has committed, and
\* whenever a file is gone the store holds the Document entity whose id is
\* the file's documentId.
C35_DeletedFileWasCommitted ==
    /\ [][\A filePath \in files \ files' :
             \E w \in Workers : At(w, "archive") /\ job[w].filePath = filePath]_vars
    /\ [](\A filePath \in Paths \ files :
             \E r \in entity : r.id = documentId(filePath) /\ r.class = "Document")

====
